---- MODULE Spec2Model ----
(***************************************************************************)
(* Model of stereogram_gui.py: the stereogram synthesizer                  *)
(* (stereogram_from_depth_texture), the depth-map preprocessor             *)
(* (load_and_resize) and the event handlers that keep the current depth    *)
(* map, texture and stereogram.                                            *)
(*                                                                         *)
(* Python evaluates the shift and the resized height in IEEE-754 binary64. *)
(* The operators of the first section compute those expressions bit for    *)
(* bit (round to nearest, ties to even, 53-bit significand), on naturals   *)
(* kept as sequences of 15-bit limbs, least significant limb first.        *)
(***************************************************************************)
EXTENDS Integers, Sequences, FiniteSets, TLC

(***************************************************************************)
(* Naturals beyond the range of TLC's integers: sequences of limbs in      *)
(* base 2^15, least significant limb first, no zero limb at the top.       *)
(***************************************************************************)
LimbBits == 15
Base == 2 ^ LimbBits

RECURSIVE Pow2(_)
Pow2(n) == IF n = 0 THEN 1 ELSE 2 * Pow2(n - 1)

RECURSIVE Norm(_)
Norm(a) ==
    IF a = <<>> THEN <<>>
    ELSE IF a[Len(a)] # 0 THEN a ELSE Norm(SubSeq(a, 1, Len(a) - 1))

RECURSIVE LimbsOf(_)
LimbsOf(n) ==
    IF n = 0 THEN <<>> ELSE <<n % Base>> \o LimbsOf(n \div Base)

\* the value of a, for a below 2^30
ValOf(a) ==
    IF a = <<>> THEN 0
    ELSE IF Len(a) = 1 THEN a[1] ELSE a[1] + Base * a[2]

RECURSIVE SmallBitLen(_)
SmallBitLen(n) == IF n = 0 THEN 0 ELSE 1 + SmallBitLen(n \div 2)

\* the number of bits of a
BitLen(a) ==
    IF a = <<>> THEN 0
    ELSE LimbBits * (Len(a) - 1) + SmallBitLen(a[Len(a)])

RECURSIVE GeqFrom(_, _, _)
GeqFrom(a, b, i) ==
    IF i = 0 THEN TRUE
    ELSE IF a[i] # b[i] THEN a[i] > b[i]
    ELSE GeqFrom(a, b, i - 1)

\* a >= b
LGeq(a, b) ==
    IF Len(a) # Len(b) THEN Len(a) > Len(b) ELSE GeqFrom(a, b, Len(a))

Limb(a, i) == IF i <= Len(a) THEN a[i] ELSE 0

\* limbs i.. of a - b - borrow
RECURSIVE SubFrom(_, _, _, _)
SubFrom(a, b, i, borrow) ==
    IF i > Len(a) THEN <<>>
    ELSE LET t == a[i] - Limb(b, i) - borrow
         IN  IF t < 0
             THEN <<t + Base>> \o SubFrom(a, b, i + 1, 1)
             ELSE <<t>> \o SubFrom(a, b, i + 1, 0)

\* a - b, for a >= b
LSub(a, b) == Norm(SubFrom(a, b, 1, 0))

\* limbs i.. of a * k + carry, for 0 <= k < Base
RECURSIVE MulFrom(_, _, _, _)
MulFrom(a, k, i, carry) ==
    IF i > Len(a) THEN LimbsOf(carry)
    ELSE LET t == a[i] * k + carry
         IN  <<t % Base>> \o MulFrom(a, k, i + 1, t \div Base)

\* a * k + c, for 0 <= k < Base and 0 <= c < Base
LMulAdd(a, k, c) == Norm(MulFrom(a, k, 1, c))

\* a * 2^n
RECURSIVE LShl(_, _)
LShl(a, n) ==
    IF a = <<>> \/ n = 0 THEN a
    ELSE IF n >= LimbBits THEN <<0>> \o LShl(a, n - LimbBits)
    ELSE LMulAdd(a, Pow2(n), 0)

\* limbs i..1 of the quotient of (rem * Base^i + a[1..i]) by k, and the
\* remainder, for 0 < k <= Base
RECURSIVE DivFrom(_, _, _, _)
DivFrom(a, k, i, rem) ==
    IF i = 0 THEN [q |-> <<>>, r |-> rem]
    ELSE LET t    == rem * Base + a[i]
             rest == DivFrom(a, k, i - 1, t % k)
         IN  [q |-> Append(rest.q, t \div k), r |-> rest.r]

\* floor(a / 2^n) in q, and whether a bit was shifted out in r
RECURSIVE LShr(_, _)
LShr(a, n) ==
    IF a = <<>> \/ n = 0 THEN [q |-> a, r |-> FALSE]
    ELSE IF n >= LimbBits
    THEN LET rest == LShr(Tail(a), n - LimbBits)
         IN  [q |-> rest.q, r |-> rest.r \/ a[1] # 0]
    ELSE LET d == DivFrom(a, Pow2(n), Len(a), 0)
         IN  [q |-> Norm(d.q), r |-> d.r # 0]

IsOdd(a) == a # <<>> /\ a[1] % 2 = 1

(***************************************************************************)
(* binary64 values >= 0: [m |-> significand, e |-> exponent] stands for    *)
(* m * 2^e with m below 2^53; zero has the empty significand.              *)
(***************************************************************************)
Precision == 53

\* The binary64 nearest to n * 2^e (plus something below the last bit of n
\* when sticky), ties to even.
RoundNearestEven(n, e, sticky) ==
    LET L == BitLen(n)
    IN  IF L <= Precision THEN [m |-> n, e |-> IF n = <<>> THEN 0 ELSE e]
        ELSE LET s     == L - Precision
                 low   == LShr(n, s - 1)
                 guard == IsOdd(low.q)
                 top   == LShr(low.q, 1).q
                 rest  == sticky \/ low.r
                 up    == guard /\ (rest \/ IsOdd(top))
                 r     == IF up THEN LMulAdd(top, 1, 1) ELSE top
             IN  IF BitLen(r) > Precision
                 THEN [m |-> LShr(r, 1).q, e |-> e + s + 1]
                 ELSE [m |-> r, e |-> e + s]

FloatOfInt(n) == RoundNearestEven(LimbsOf(n), 0, FALSE)

\* long division by the natural b < Base: q holds the quotient so far,
\* scaled by Base^-n, and rem the remainder; it is continued until the
\* quotient holds the significand, the guard bit and one more
RECURSIVE DivSmall(_, _, _, _)
DivSmall(q, rem, b, n) ==
    IF rem = 0 \/ BitLen(q) >= Precision + 2
    THEN RoundNearestEven(q, 0 - LimbBits * n, rem # 0)
    ELSE DivSmall(Norm(<<(rem * Base) \div b>> \o q),
                  (rem * Base) % b, b, n + 1)

\* a / b in binary64, for integers a >= 0 and 0 < b < Base
FDivInts(a, b) == DivSmall(LimbsOf(a \div b), a % b, b, 0)

\* a - b in binary64, for a >= b >= 0
FSub(a, b) ==
    IF b.m = <<>> THEN a
    ELSE LET e == IF a.e < b.e THEN a.e ELSE b.e
         IN  RoundNearestEven(LSub(LShl(a.m, a.e - e), LShl(b.m, b.e - e)), e, FALSE)

\* k * a in binary64, for a natural k < Base
FMulInt(k, a) == RoundNearestEven(LMulAdd(a.m, k, 0), a.e, FALSE)

\* long division by the significand d, bit by bit: q holds the quotient so
\* far, scaled by 2^-n, and rem the remainder
RECURSIVE DivBig(_, _, _, _)
DivBig(q, rem, d, n) ==
    IF rem = <<>> \/ BitLen(q) >= Precision + 2
    THEN RoundNearestEven(q, 0 - n, rem # <<>>)
    ELSE LET r2 == LMulAdd(rem, 2, 0)
         IN  IF LGeq(r2, d)
             THEN DivBig(LMulAdd(q, 2, 1), LSub(r2, d), d, n + 1)
             ELSE DivBig(LMulAdd(q, 2, 0), r2, d, n + 1)

\* k / a in binary64, for a natural k < Base * Base and a > 0: the divisor
\* a.m * 2^u and the dividend k * 2^s are aligned so that the dividend is
\* the smaller one and one bit shorter
FDivIntBy(k, a) ==
    LET lk == BitLen(LimbsOf(k))
        lm == BitLen(a.m)
        u  == IF lk - lm + 1 > 0 THEN lk - lm + 1 ELSE 0
        s  == lm + u - 1 - lk
        r  == DivBig(<<>>, LShl(LimbsOf(k), s), LShl(a.m, u), s - u)
    IN  IF r.m = <<>> THEN r ELSE [m |-> r.m, e |-> r.e - a.e]

\* a > 1.0
FGtOne(a) ==
    /\ a.m # <<>>
    /\ IF a.e >= 0 THEN a.e > 0 \/ a.m # <<1>>
       ELSE LET one == LShl(<<1>>, 0 - a.e)
            IN  LGeq(a.m, one) /\ a.m # one

\* int(a): the integer part of a >= 0
FTrunc(a) ==
    IF a.m = <<>> THEN 0
    ELSE IF a.e >= 0 THEN ValOf(LShl(a.m, a.e))
    ELSE ValOf(LShr(a.m, 0 - a.e).q)

(***************************************************************************)
(* Bounds of the model.                                                    *)
(***************************************************************************)
MaxRows == 2
MaxCols == 4
MaxPixels == 4
MaxColor == 1
MaxPatternWidth == 3
MaxStrength == 2

\* the divisor 255.0 of the shift, the brightest depth value
MaxDepth == 255

Min(a, b) == IF a < b THEN a ELSE b
Max(a, b) == IF a > b THEN a ELSE b

None == <<>>

\* colours of a pixel; 0 is black, the value np.zeros_like fills with
Colors == 0..MaxColor
\* depth intensities the synthesizer's inputs are drawn from
DepthValues == {0, MaxDepth}
\* shapes (h, w) of the synthesizer's inputs
Shapes == {s \in (1..MaxRows) \X (1..MaxCols) : s[1] * s[2] <= MaxPixels}
PatternWidths == (0 - 1)..MaxPatternWidth
Strengths == (0 - 1)..MaxStrength

VARIABLES
    depth_map,       \* the depth array [shape, px], or None
    texture_img,     \* the texture image [width, height, px], or None
    pattern_width,
    depth_strength,
    h, w,            \* locals of stereogram_from_depth_texture
    texture,
    sgram,
    y, x,
    indices,
    z, left,
    pc,              \* where the running function stands
    accessed,        \* the column subscripts of the last loop step
    ret,             \* the image the call returned, or None
    current_sgram,   \* globals and widgets of the application
    status_label,
    messagebox,
    handler,
    path,
    pixel,           \* depth value the shift is computed for
    img,             \* the image load_and_resize opened
    arr              \* what load_and_resize returned

vars == <<depth_map, texture_img, pattern_width, depth_strength, h, w, texture,
          sgram, y, x, indices, z, left, pc, accessed, ret, current_sgram,
          status_label, messagebox, handler, path, pixel, img, arr>>

guiVars == <<current_sgram, status_label, messagebox, handler, path>>
funVars == <<pixel, img, arr>>
callVars == <<h, w, texture, sgram, y, x, indices, z, left, accessed, ret>>

(***************************************************************************)
(* numpy and PIL, as far as the program uses them.                         *)
(***************************************************************************)
\* a[i] is defined for -n <= i < n; a negative i counts from the end
InBounds(i, n) == 0 - n <= i /\ i < n
Wrap(i, n) == IF i < 0 THEN i + n ELSE i

\* the columns a[:stop] selects of n
SliceStop(stop, n) == IF stop < 0 THEN Max(n + stop, 0) ELSE Min(stop, n)

Rows(hh) == 0..(hh - 1)
Cols(ww) == 0..(ww - 1)

Uniform(hh, ww, c) == [r \in Rows(hh) |-> [k \in Cols(ww) |-> c]]
IsUniform(im) ==
    \A r \in Rows(im.height), k \in Cols(im.width) : im.px[r][k] = im.px[0][0]

\* Image.resize((ww, hh), LANCZOS).convert('RGB'): the pixels it may give.
\* An image of that size already is copied; a one-colour image stays that
\* colour; any other resampling is left open.
Resized(im, ww, hh) ==
    IF im.width = ww /\ im.height = hh THEN {im.px}
    ELSE IF IsUniform(im) THEN {Uniform(hh, ww, im.px[0][0])}
    ELSE [Rows(hh) -> [Cols(ww) -> Colors]]

(***************************************************************************)
(* stereogram_from_depth_texture                                           *)
(***************************************************************************)
\* the shift with the polarity of the depth value swapped
ShiftInverted(ds, d) ==
    LET f == FDivInts(d, MaxDepth)
    IN  IF ds >= 0 THEN FTrunc(FMulInt(ds, f))
        ELSE 0 - FTrunc(FMulInt(0 - ds, f))

\* z = int(depth_strength * (1.0 - depth_map[y, x] / 255.0))
Shift(ds, d) ==
    LET f == FSub(FloatOfInt(1), FDivInts(d, MaxDepth))
    IN  IF ds >= 0 THEN FTrunc(FMulInt(ds, f))
        ELSE 0 - FTrunc(FMulInt(0 - ds, f))

ShiftTable == [ds \in Strengths, d \in DepthValues |-> Shift(ds, d)]

\* the test of the link loop off by one
CanLinkLoose(lf, zz) == lf - zz >= 0 - 1

\* if left - z >= 0
CanLink(lf, zz) == lf - zz >= 0

\* the link set to left - z itself, not to what it is linked to
LinkSourceNoChase(ind, lf, zz, ww) == Wrap(lf - zz, ww)

\* indices[left - z], the value indices[x] is set to
LinkSource(ind, lf, zz, ww) == ind[Wrap(lf - zz, ww)]

\* the seed band one column short
SeedRowShort(row, texrow, pw, ww) ==
    [k \in Cols(ww) |-> IF k < SliceStop(pw - 1, ww) THEN texrow[k] ELSE row[k]]

\* sgram[y, :pattern_width] = texture[y, :pattern_width]
SeedRow(row, texrow, pw, ww) ==
    [k \in Cols(ww) |-> IF k < SliceStop(pw, ww) THEN texrow[k] ELSE row[k]]

\* h, w = depth_map.shape ... sgram = np.zeros_like(texture)
Enter ==
    /\ pc = "call"
    /\ h' = depth_map.shape[1]
    /\ w' = depth_map.shape[2]
    /\ texture' \in Resized(texture_img, w', h')
    /\ sgram' = Uniform(h', w', 0)
    /\ y' = 0
    /\ pc' = "row"
    /\ UNCHANGED <<depth_map, texture_img, pattern_width, depth_strength,
                   x, indices, z, left, accessed, ret>>
    /\ UNCHANGED <<guiVars, funVars>>

\* for y in range(h): indices = np.arange(w)
RowStart ==
    /\ pc = "row"
    /\ y < h
    /\ indices' = [k \in Cols(w) |-> k]
    /\ x' = pattern_width
    /\ accessed' = {}
    /\ pc' = "link"
    /\ UNCHANGED <<depth_map, texture_img, pattern_width, depth_strength,
                   h, w, texture, sgram, y, z, left, ret>>
    /\ UNCHANGED <<guiVars, funVars>>

\* one turn of for x in range(pattern_width, w), the link loop
LinkStep ==
    /\ pc = "link"
    /\ x < w
    /\ IF ~InBounds(x, w)
       THEN /\ pc' = "raised"
            /\ accessed' = {x}
            /\ UNCHANGED <<z, left, indices, x>>
       ELSE LET zz == ShiftTable[depth_strength, depth_map.px[y][Wrap(x, w)]]
                lf == x - pattern_width
            IN  /\ z' = zz
                /\ left' = lf
                /\ IF ~CanLink(lf, zz)
                   THEN /\ accessed' = {x}
                        /\ UNCHANGED <<indices, pc>>
                        /\ x' = x + 1
                   ELSE IF ~InBounds(lf - zz, w)
                   THEN /\ accessed' = {x, lf - zz}
                        /\ pc' = "raised"
                        /\ UNCHANGED <<indices, x>>
                   ELSE /\ accessed' = {x, lf - zz}
                        /\ indices' = [indices EXCEPT
                                         ![Wrap(x, w)] = LinkSource(indices, lf, zz, w)]
                        /\ x' = x + 1
                        /\ UNCHANGED pc
    /\ UNCHANGED <<depth_map, texture_img, pattern_width, depth_strength,
                   h, w, texture, sgram, y, ret>>
    /\ UNCHANGED <<guiVars, funVars>>

\* sgram[y, :pattern_width] = texture[y, :pattern_width]
Seed ==
    /\ pc = "link"
    /\ x >= w
    /\ sgram' = [sgram EXCEPT ![y] = SeedRow(sgram[y], texture[y], pattern_width, w)]
    /\ x' = pattern_width
    /\ accessed' = {}
    /\ pc' = "resolve"
    /\ UNCHANGED <<depth_map, texture_img, pattern_width, depth_strength,
                   h, w, texture, y, indices, z, left, ret>>
    /\ UNCHANGED <<guiVars, funVars>>

\* one turn of the second for x in range(pattern_width, w):
\* sgram[y, x] = sgram[y, indices[x]]
ResolveStep ==
    /\ pc = "resolve"
    /\ x < w
    /\ IF ~InBounds(x, w)
       THEN /\ pc' = "raised"
            /\ accessed' = {x}
            /\ UNCHANGED <<sgram, x>>
       ELSE LET src == indices[Wrap(x, w)]
            IN  /\ accessed' = {x, src}
                /\ IF ~InBounds(src, w)
                   THEN /\ pc' = "raised"
                        /\ UNCHANGED <<sgram, x>>
                   ELSE /\ sgram' = [sgram EXCEPT
                                       ![y][Wrap(x, w)] = sgram[y][Wrap(src, w)]]
                        /\ x' = x + 1
                        /\ UNCHANGED pc
    /\ UNCHANGED <<depth_map, texture_img, pattern_width, depth_strength,
                   h, w, texture, y, indices, z, left, ret>>
    /\ UNCHANGED <<guiVars, funVars>>

\* the row is resolved: on to the next y
RowEnd ==
    /\ pc = "resolve"
    /\ x >= w
    /\ y' = y + 1
    /\ pc' = "row"
    /\ UNCHANGED <<depth_map, texture_img, pattern_width, depth_strength,
                   h, w, texture, sgram, x, indices, z, left, accessed, ret>>
    /\ UNCHANGED <<guiVars, funVars>>

\* return Image.fromarray(sgram)
Return ==
    /\ pc = "row"
    /\ y >= h
    /\ ret' = [width |-> w, height |-> h, px |-> sgram]
    /\ pc' = "done"
    /\ UNCHANGED <<depth_map, texture_img, pattern_width, depth_strength,
                   h, w, texture, sgram, y, x, indices, z, left, accessed>>
    /\ UNCHANGED <<guiVars, funVars>>

\* the textures a call is tried with for a depth map of shape (hh, ww):
\* every image of that size, and the one-colour images of the other sizes
Textures(hh, ww) ==
    {[width |-> ww, height |-> hh, px |-> p] :
        p \in [Rows(hh) -> [Cols(ww) -> Colors]]}
    \cup {[width |-> s[2], height |-> s[1], px |-> Uniform(s[1], s[2], c)] :
            s \in Shapes \ {<<hh, ww>>}, c \in Colors}

\* a call of stereogram_from_depth_texture with any arguments
Init ==
    /\ \E s \in Shapes :
         /\ depth_map \in {[shape |-> s, px |-> p] :
                              p \in [Rows(s[1]) -> [Cols(s[2]) -> DepthValues]]}
         /\ texture_img \in Textures(s[1], s[2])
    /\ pattern_width \in PatternWidths
    /\ depth_strength \in Strengths
    /\ h = 0 /\ w = 0 /\ texture = <<>> /\ sgram = <<>>
    /\ y = 0 /\ x = 0 /\ indices = <<>> /\ z = 0 /\ left = 0
    /\ pc = "call"
    /\ accessed = {}
    /\ ret = None
    /\ current_sgram = None /\ status_label = "" /\ messagebox = ""
    /\ handler = "" /\ path = None
    /\ pixel = 0 /\ img = None /\ arr = None

Next ==
    \/ Enter
    \/ RowStart
    \/ LinkStep
    \/ Seed
    \/ ResolveStep
    \/ RowEnd
    \/ Return

Spec == Init /\ [][Next]_vars

(***************************************************************************)
(* The shift alone: z for one strength and one depth value.                *)
(***************************************************************************)
MaxShiftStrength == 40

InitShift ==
    /\ depth_strength \in 0..MaxShiftStrength
    /\ pixel \in 0..MaxDepth
    /\ z = 0
    /\ pc = "shift"
    /\ depth_map = None /\ texture_img = None /\ pattern_width = 0
    /\ h = 0 /\ w = 0 /\ texture = <<>> /\ sgram = <<>>
    /\ y = 0 /\ x = 0 /\ indices = <<>> /\ left = 0
    /\ accessed = {}
    /\ ret = None
    /\ current_sgram = None /\ status_label = "" /\ messagebox = ""
    /\ handler = "" /\ path = None
    /\ img = None /\ arr = None

ComputeShift ==
    /\ pc = "shift"
    /\ z' = Shift(depth_strength, pixel)
    /\ pc' = "shifted"
    /\ UNCHANGED <<depth_map, texture_img, pattern_width, depth_strength,
                   h, w, texture, sgram, y, x, indices, left, accessed, ret>>
    /\ UNCHANGED <<guiVars, funVars>>

NextShift == ComputeShift

SpecShift == InitShift /\ [][NextShift]_vars

(***************************************************************************)
(* load_and_resize.  The model keeps the shape of the array it returns;    *)
(* the resampled and possibly inverted pixels are left out.                *)
(***************************************************************************)
max_dim == 600
MaxSmallSide == 9

\* what img.resize raises for a size with a side below 1
ValueError == [error |-> "height and width must be > 0"]

load_and_resize(im) ==
    LET aspect == FDivInts(im.width, im.height)
        ww     == Min(max_dim, im.width)
        hh     == IF FGtOne(aspect)
                  THEN FTrunc(FDivIntBy(ww, aspect))
                  ELSE Min(max_dim, im.height)
    IN  IF ww < 1 \/ hh < 1 THEN ValueError ELSE [shape |-> <<hh, ww>>]

\* widths and heights of the images the function is tried on
Sides ==
    (1..MaxSmallSide)
    \cup {max_dim \div 2, max_dim - 1, max_dim, max_dim + 1, 2 * max_dim}

InitResize ==
    /\ img \in {[width |-> a, height |-> b] : a \in Sides, b \in Sides}
    /\ arr = None
    /\ pc = "open"
    /\ depth_map = None /\ texture_img = None
    /\ pattern_width = 0 /\ depth_strength = 0
    /\ h = 0 /\ w = 0 /\ texture = <<>> /\ sgram = <<>>
    /\ y = 0 /\ x = 0 /\ indices = <<>> /\ z = 0 /\ left = 0
    /\ accessed = {}
    /\ ret = None
    /\ current_sgram = None /\ status_label = "" /\ messagebox = ""
    /\ handler = "" /\ path = None
    /\ pixel = 0

LoadAndResize ==
    /\ pc = "open"
    /\ arr' = load_and_resize(img)
    /\ pc' = "resized"
    /\ UNCHANGED <<depth_map, texture_img, pattern_width, depth_strength>>
    /\ UNCHANGED <<callVars, guiVars, pixel, img>>

NextResize == LoadAndResize

SpecResize == InitResize /\ [][NextResize]_vars

(***************************************************************************)
(* The application: its globals and the handlers of its buttons and        *)
(* sliders.  Images are kept by their size.                                *)
(***************************************************************************)
ScaleMinWidth == 30
ScaleMaxWidth == 200
DefaultWidth == 80
ScaleMinStrength == 6
ScaleMaxStrength == 40
DefaultStrength == 20

\* what the file dialog may hand back: nothing, a file PIL cannot open, or
\* an image of some size
Cancel == [kind |-> "cancel"]
Unreadable == [kind |-> "unreadable"]
DialogSides == {1, 2, max_dim \div 2, 2 * max_dim}
ImageFiles ==
    {[kind |-> "image", width |-> a, height |-> b] :
        a \in DialogSides, b \in DialogSides}

ResizeTable == [f \in ImageFiles |-> load_and_resize(f)]

\* texture_img.resize((depth_map.shape[1], depth_map.shape[0]), LANCZOS)
ResizedTo(dm) == [width |-> dm.shape[2], height |-> dm.shape[1]]

\* the texture left as it was when a depth map is loaded
TextureAfterDepthKept(ti, dm) == ti

\* lines 72-74: a texture loaded earlier is resized to the new depth map
TextureAfterDepth(ti, dm) == IF ti # None THEN ResizedTo(dm) ELSE ti

\* lines 85-89: the texture a file is loaded as
LoadedTexture(f, dm) ==
    IF dm # None THEN ResizedTo(dm)
    ELSE [width |-> f.width, height |-> f.height]

\* update_preview: the stereogram and the status it leaves.  The sliders keep
\* pattern_width >= 30 and depth_strength >= 6, for which the synthesizer
\* returns an image of the depth map's size.
update_preview(dm, ti, cs) ==
    IF dm = None \/ ti = None
    THEN [current_sgram |-> cs,
          status_label |-> "Please load BOTH depth map and texture."]
    ELSE [current_sgram |-> ResizedTo(dm), status_label |-> "Preview OK."]

InitGui ==
    /\ depth_map = None
    /\ texture_img = None
    /\ current_sgram = None
    /\ pattern_width = DefaultWidth
    /\ depth_strength = DefaultStrength
    /\ status_label = "Load depth map and texture to begin."
    /\ messagebox = ""
    /\ handler = ""
    /\ path = None
    /\ pc = "mainloop"
    /\ h = 0 /\ w = 0 /\ texture = <<>> /\ sgram = <<>>
    /\ y = 0 /\ x = 0 /\ indices = <<>> /\ z = 0 /\ left = 0
    /\ accessed = {}
    /\ ret = None
    /\ pixel = 0 /\ img = None /\ arr = None

\* select_depth_map with the dialog cancelled: if not path: return
SelectDepthMapCancelled ==
    /\ pc = "mainloop"
    /\ handler' = "select_depth_map"
    /\ path' = Cancel
    /\ messagebox' = ""
    /\ UNCHANGED <<depth_map, texture_img, current_sgram, status_label,
                   pattern_width, depth_strength, pc>>
    /\ UNCHANGED <<callVars, funVars>>

\* select_depth_map with a file load_and_resize raises on
SelectDepthMapFailed ==
    /\ pc = "mainloop"
    /\ \E f \in ImageFiles \cup {Unreadable} :
         /\ IF f = Unreadable THEN TRUE ELSE ResizeTable[f] = ValueError
         /\ path' = f
    /\ handler' = "select_depth_map"
    /\ messagebox' = "Image error"
    /\ UNCHANGED <<depth_map, texture_img, current_sgram, status_label,
                   pattern_width, depth_strength, pc>>
    /\ UNCHANGED <<callVars, funVars>>

\* select_depth_map with an image that loads
SelectDepthMapLoaded ==
    /\ pc = "mainloop"
    /\ \E f \in ImageFiles :
         /\ ResizeTable[f] # ValueError
         /\ path' = f
         /\ depth_map' = ResizeTable[f]
    /\ texture_img' = TextureAfterDepth(texture_img, depth_map')
    /\ LET p == update_preview(depth_map', texture_img', current_sgram)
       IN  /\ current_sgram' = p.current_sgram
           /\ status_label' = p.status_label
    /\ handler' = "select_depth_map"
    /\ messagebox' = ""
    /\ UNCHANGED <<pattern_width, depth_strength, pc>>
    /\ UNCHANGED <<callVars, funVars>>

\* select_texture_img with the dialog cancelled
SelectTextureCancelled ==
    /\ pc = "mainloop"
    /\ handler' = "select_texture_img"
    /\ path' = Cancel
    /\ messagebox' = ""
    /\ UNCHANGED <<depth_map, texture_img, current_sgram, status_label,
                   pattern_width, depth_strength, pc>>
    /\ UNCHANGED <<callVars, funVars>>

\* select_texture_img with a file Image.open raises on
SelectTextureFailed ==
    /\ pc = "mainloop"
    /\ handler' = "select_texture_img"
    /\ path' = Unreadable
    /\ messagebox' = "Image error"
    /\ UNCHANGED <<depth_map, texture_img, current_sgram, status_label,
                   pattern_width, depth_strength, pc>>
    /\ UNCHANGED <<callVars, funVars>>

\* select_texture_img with an image that loads
SelectTextureLoaded ==
    /\ pc = "mainloop"
    /\ \E f \in ImageFiles :
         /\ path' = f
         /\ texture_img' = LoadedTexture(f, depth_map)
    /\ LET p == update_preview(depth_map, texture_img', current_sgram)
       IN  /\ current_sgram' = p.current_sgram
           /\ status_label' = p.status_label
    /\ handler' = "select_texture_img"
    /\ messagebox' = ""
    /\ UNCHANGED <<depth_map, pattern_width, depth_strength, pc>>
    /\ UNCHANGED <<callVars, funVars>>

\* the Pattern Width slider is moved: command=lambda _: update_preview()
PatternWidthMoved ==
    /\ pc = "mainloop"
    /\ pattern_width' \in {ScaleMinWidth, DefaultWidth, ScaleMaxWidth}
    /\ LET p == update_preview(depth_map, texture_img, current_sgram)
       IN  /\ current_sgram' = p.current_sgram
           /\ status_label' = p.status_label
    /\ handler' = "pattern_width"
    /\ messagebox' = ""
    /\ UNCHANGED <<depth_map, texture_img, depth_strength, path, pc>>
    /\ UNCHANGED <<callVars, funVars>>

\* the Depth Strength slider is moved
DepthStrengthMoved ==
    /\ pc = "mainloop"
    /\ depth_strength' \in {ScaleMinStrength, DefaultStrength, ScaleMaxStrength}
    /\ LET p == update_preview(depth_map, texture_img, current_sgram)
       IN  /\ current_sgram' = p.current_sgram
           /\ status_label' = p.status_label
    /\ handler' = "depth_strength"
    /\ messagebox' = ""
    /\ UNCHANGED <<depth_map, texture_img, pattern_width, path, pc>>
    /\ UNCHANGED <<callVars, funVars>>

\* save_image with no stereogram yet
SaveNothing ==
    /\ pc = "mainloop"
    /\ current_sgram = None
    /\ handler' = "save_image"
    /\ messagebox' = "Nothing to save"
    /\ UNCHANGED <<depth_map, texture_img, current_sgram, status_label,
                   pattern_width, depth_strength, path, pc>>
    /\ UNCHANGED <<callVars, funVars>>

\* save_image: the stereogram is written unless the dialog is cancelled
SaveImage ==
    /\ pc = "mainloop"
    /\ current_sgram # None
    /\ \E saved \in BOOLEAN :
         status_label' = IF saved THEN "Saved." ELSE status_label
    /\ handler' = "save_image"
    /\ messagebox' = ""
    /\ UNCHANGED <<depth_map, texture_img, current_sgram,
                   pattern_width, depth_strength, path, pc>>
    /\ UNCHANGED <<callVars, funVars>>

NextGui ==
    \/ SelectDepthMapCancelled
    \/ SelectDepthMapFailed
    \/ SelectDepthMapLoaded
    \/ SelectTextureCancelled
    \/ SelectTextureFailed
    \/ SelectTextureLoaded
    \/ PatternWidthMoved
    \/ DepthStrengthMoved
    \/ SaveNothing
    \/ SaveImage

SpecGui == InitGui /\ [][NextGui]_vars

(***************************************************************************)
(* Properties of the synthesizer (Spec).                                   *)
(***************************************************************************)
ValidParams == pattern_width >= 1 /\ depth_strength >= 0

SameSize ==
    /\ texture_img.width = depth_map.shape[2]
    /\ texture_img.height = depth_map.shape[1]

\* the columns of the seed band
SeedCols == 0..(Min(pattern_width, w) - 1)
\* the columns the two loops run over
LinkCols == pattern_width..(w - 1)

\* C1: for a texture of the depth map's size, pattern_width >= 1 and
\* depth_strength >= 0, when the link loop of
\* a row is over every column x >= pattern_width has index[x] < x, so that
\* the resolve loop reads only cells written before.
C1_SinglePass ==
    (SameSize /\ ValidParams /\ pc = "resolve") =>
        \A k \in LinkCols : indices[k] < k

\* C2: for depth_strength >= 0 the seed columns of every row hold the
\* texture's pixels from the moment the row is seeded, through the resolve
\* loop and the later rows, and in the returned image.
C2_SeedFidelity ==
    depth_strength >= 0 =>
        \A r \in Rows(h) : \A k \in SeedCols :
            /\ (r < y \/ (r = y /\ pc = "resolve")) => sgram[r][k] = texture[r][k]
            /\ pc = "done" => ret.px[r][k] = texture[r][k]

C2_Witness ==
    /\ pc = "done"
    /\ depth_strength > 0
    /\ pattern_width >= 1 /\ pattern_width < w
    /\ h > 1
    /\ \E k \in SeedCols : texture[0][k] # 0
    /\ \E k \in LinkCols : ret.px[0][k] # ret.px[0][0]

\* a row all of whose shifts are zero: depth_strength = 0, or every depth
\* value of the row is 255
ZeroShiftRow(r) ==
    \/ depth_strength = 0
    \/ \A k \in Cols(w) : depth_map.px[r][k] = MaxDepth

\* C3: in the returned image a row whose shifts are all zero repeats with
\* period pattern_width: output[y, x] = output[y, x - pattern_width] for
\* every x >= pattern_width.
C3_PureTiling ==
    (pc = "done" /\ ValidParams) =>
        \A r \in Rows(h) : ZeroShiftRow(r) =>
            \A k \in LinkCols : ret.px[r][k] = ret.px[r][k - pattern_width]

C3_Witness ==
    /\ pc = "done"
    /\ depth_strength > 0
    /\ pattern_width >= 1
    /\ w > 2 * pattern_width
    /\ \E r \in Rows(h) :
         /\ ZeroShiftRow(r)
         /\ ret.px[r][w - 1] # texture[r][w - 1]

\* C4: the call goes past its entry, and returns an image, only for a
\* texture of the depth map's size, pattern_width >= 1 and
\* depth_strength >= 0; otherwise it raises before any row is processed.
C4_AllOrNothing ==
    ~(SameSize /\ ValidParams) =>
        /\ pc \in {"call", "raised"}
        /\ sgram = <<>>
        /\ ret = None

\* C5: for a texture of the depth map's size, pattern_width >= 1 and
\* depth_strength >= 0, every pixel of every
\* row of the returned image, the fallback columns included, is a copy of
\* a texture pixel of that row's seed band.
C5_FallbackSource ==
    (pc = "done" /\ SameSize /\ ValidParams) =>
        \A r \in Rows(h) : \A k \in Cols(w) :
            \E c \in SeedCols : ret.px[r][k] = texture[r][c]

\* C6: for pattern_width >= 1 and depth_strength >= 0 the call never raises,
\* every subscript of depth_map, indices and sgram in the two loops is a
\* column in [0, W), and every entry of indices stays in [0, W).
C6_NoOutOfRange ==
    ValidParams =>
        /\ pc # "raised"
        /\ accessed \subseteq Cols(w)
        /\ pc \in {"link", "resolve"} => \A k \in Cols(w) : indices[k] \in Cols(w)

C6_Witness ==
    /\ pc = "done"
    /\ pattern_width >= 1 /\ pattern_width < w
    /\ depth_strength > pattern_width
    /\ \E k \in LinkCols : indices[k] = k
    /\ \E k \in LinkCols : indices[k] < pattern_width

\* C10: for pattern_width >= 1 and depth_strength >= 0, at every step of the
\* link loop and after it, 0 <= index[x] <= x and index[index[x]] =
\* index[x] for every x; and every resolved pixel is texture[y, index[x]]
\* when index[x] is a seed column and black (0) otherwise.
C10_PathCompressed ==
    ValidParams =>
        /\ pc \in {"link", "resolve"} =>
             \A k \in Cols(w) :
                /\ 0 <= indices[k] /\ indices[k] <= k
                /\ indices[indices[k]] = indices[k]
        /\ pc = "resolve" =>
             \A k \in LinkCols : k < x =>
                sgram[y][k] = IF indices[k] < pattern_width
                              THEN texture[y][indices[k]]
                              ELSE 0

C10_Witness ==
    /\ ValidParams
    /\ pc = "resolve"
    /\ x = w
    /\ \E k \in LinkCols : \E j \in LinkCols :
         /\ j > k
         /\ indices[k] = k
         /\ indices[j] = k
         /\ texture[y][j] # 0
    /\ \E k \in LinkCols : indices[k] < pattern_width /\ indices[k] # k - pattern_width

(***************************************************************************)
(* Property of the shift (SpecShift).                                      *)
(***************************************************************************)
\* C7: for a depth value d in 0..255 and depth_strength >= 0 the shift is
\* z = floor(depth_strength * (255 - d) / 255), within 0..depth_strength,
\* 0 at d = 255, depth_strength at d = 0, and not larger than the shift of
\* a smaller d.
C7_BoundedShift ==
    pc = "shifted" =>
        /\ z = (depth_strength * (MaxDepth - pixel)) \div MaxDepth
        /\ 0 <= z /\ z <= depth_strength
        /\ pixel = MaxDepth => z = 0
        /\ pixel = 0 => z = depth_strength
        /\ pixel < MaxDepth => Shift(depth_strength, pixel + 1) <= z

(***************************************************************************)
(* Property of load_and_resize (SpecResize).                               *)
(***************************************************************************)
Abs(n) == IF n < 0 THEN 0 - n ELSE n

\* hh is within one pixel of ww * H0 / W0, or ww within one of hh * W0 / H0
AspectKept(ww, hh, W0, H0) ==
    \/ Abs(hh * W0 - ww * H0) <= W0
    \/ Abs(ww * H0 - hh * W0) <= H0

\* C8: for every image of width and height >= 1, the array load_and_resize
\* returns has its larger side at most max_dim and the image's aspect ratio
\* to within one pixel.  (The images it returns no array for are left aside.)
C8_ResizeKeepsAspect ==
    (pc = "resized" /\ arr # ValueError) =>
        /\ Max(arr.shape[1], arr.shape[2]) <= max_dim
        /\ AspectKept(arr.shape[2], arr.shape[1], img.width, img.height)

(***************************************************************************)
(* Property of the application (SpecGui).                                  *)
(***************************************************************************)
BothLoadedAgree ==
    (pc = "mainloop" /\ depth_map # None /\ texture_img # None) =>
        /\ texture_img.width = depth_map.shape[2]
        /\ texture_img.height = depth_map.shape[1]

LoadStep ==
    /\ (handler' \in {"select_depth_map", "select_texture_img"}
          /\ (path' = Cancel \/ messagebox' = "Image error"))
       => UNCHANGED <<depth_map, texture_img>>
    /\ (handler' = "select_texture_img" /\ path' \in ImageFiles
          /\ messagebox' = "" /\ depth_map = None)
       => texture_img' = [width |-> path'.width, height |-> path'.height]

\* C9: whenever a depth map and a texture are both stored the texture has
\* the depth map's width and height; a cancelled or failed load leaves both
\* as they were, and a texture loaded before any depth map keeps its size.
C9_DimensionsAgree == [](BothLoadedAgree) /\ [][LoadStep]_vars

C9_Witness ==
    /\ handler = "select_depth_map"
    /\ path \in ImageFiles
    /\ messagebox = ""
    /\ texture_img # None
    /\ depth_map.shape # <<path.height, path.width>>
    /\ current_sgram = ResizedTo(depth_map)

====
